---- MODULE Spec2Model ----
(***************************************************************************)
(* SecureBox: the api-gateway (upload saga, one-time download, status),    *)
(* the storage-service (store, retrieve, mark_downloaded, status, cleanup) *)
(* and the background-worker sweeps, as one state machine over the three   *)
(* tiers: the Redis caches, the files table and the MinIO bucket.          *)
(*                                                                         *)
(* Time is counted in whole hours.  A Redis key written at hour T with a   *)
(* TTL of h hours and a row whose expires_at is T + h lapse together: both *)
(* are live while now <= T + h and gone once now > T + h.                  *)
(***************************************************************************)
EXTENDS Integers, Sequences, FiniteSets, TLC

\* ------------------------------------------------------------- bounds
MaxFiles == 2
MaxUploads == 1
\* uploads arrive during the hours 0 .. LastUploadHour
LastUploadHour == 0
NDownloads == 2
MaxTime == 4
\* a row is marked by direct requests to the storage-service at most MaxMarks times
MaxMarks == 1

\* ---------------------------------------------- deployment constants
\* os.getenv('DEFAULT_EXPIRY_HOURS', 24) and os.getenv('MAX_EXPIRY_HOURS', 168):
\* deployment settings, scaled here so that DEFAULT < MAX < MaxTime.
DEFAULT_EXPIRY_HOURS == 2
MAX_EXPIRY_HOURS == 3
\* INTERVAL '1 hour' of cleanup_downloaded_files
GRACE_HOURS == 1

NULL == -99
NoPassword == "none"

FileIds == 1 .. MaxFiles
Slots == 1 .. NDownloads
\* generate_token(): a fresh unguessable token per upload; 100 was never issued
TokenOf(f) == 100 + f
UnknownToken == 100
Tokens == {UnknownToken} \cup {TokenOf(f) : f \in FileIds}
RequestTokens == {UnknownToken} \cup {TokenOf(f) : f \in 1 .. MaxUploads}
FileOfToken(t) == t - 100

\* ------------------------------------------------ request input domains
\* the uploaded bytes and the optional password of POST /upload
UploadBodies ==
    { [ password |-> NoPassword, content |-> <<72, 105>> ],
      [ password |-> "pw", content |-> <<255>> ] }
DownloadPasswords == { NoPassword, "pw" }
\* expiry_hours form field: absent (NULL), negative, zero, below the default,
\* the maximum, above the maximum
ExpiryInputs == { NULL, -1, 0, 1, MAX_EXPIRY_HOURS, MAX_EXPIRY_HOURS + 1 }
\* file.filename split at its dots: '' is <<>>, 'a' is <<"a">>, 'a.txt' is <<"a", "txt">>
Filenames == { <<>>, <<"a">>, <<"a", "txt">>, <<"a", "TXT">>, <<"a", "exe">> }

\* ------------------------------------------------------------ encodings
\* bytes.hex(): two hex digits (0..15) per byte
RECURSIVE Hex(_)
Hex(bytes) ==
    IF bytes = <<>> THEN <<>>
    ELSE << Head(bytes) \div 16, Head(bytes) % 16 >> \o Hex(Tail(bytes))

HexError == << -1 >>

\* bytes.fromhex(): raises ValueError on an odd number of digits
RECURSIVE FromHexPairs(_)
FromHexPairs(h) ==
    IF h = <<>> THEN <<>>
    ELSE << 16 * h[1] + h[2] >> \o FromHexPairs(SubSeq(h, 3, Len(h)))

\* seeded fault (C3): the two digits of a byte are read in the wrong order
FromHexSwapped(h) ==
    IF Len(h) % 2 = 1 THEN HexError
    ELSE [ i \in 1 .. (Len(h) \div 2) |-> 16 * h[2 * i] + h[2 * i - 1] ]

FromHex(h) ==
    IF Len(h) % 2 = 1 THEN HexError ELSE FromHexPairs(h)

\* base64: sextets 0..63, 64 is the '=' padding
B64Pad == 64

RECURSIVE B64Encode(_)
B64Encode(bytes) ==
    IF bytes = <<>> THEN <<>>
    ELSE IF Len(bytes) = 1 THEN
        LET n == bytes[1] * 65536
        IN << n \div 262144, (n \div 4096) % 64, B64Pad, B64Pad >>
    ELSE IF Len(bytes) = 2 THEN
        LET n == bytes[1] * 65536 + bytes[2] * 256
        IN << n \div 262144, (n \div 4096) % 64, (n \div 64) % 64, B64Pad >>
    ELSE
        LET n == bytes[1] * 65536 + bytes[2] * 256 + bytes[3]
        IN << n \div 262144, (n \div 4096) % 64, (n \div 64) % 64, n % 64 >>
           \o B64Encode(SubSeq(bytes, 4, Len(bytes)))

RECURSIVE B64Decode(_)
B64Decode(s) ==
    IF Len(s) < 4 THEN <<>>
    ELSE
        LET n == s[1] * 262144 + s[2] * 4096
                 + (IF s[3] = B64Pad THEN 0 ELSE s[3] * 64)
                 + (IF s[4] = B64Pad THEN 0 ELSE s[4])
            grp == IF s[3] = B64Pad THEN << n \div 65536 >>
                   ELSE IF s[4] = B64Pad THEN << n \div 65536, (n \div 256) % 256 >>
                   ELSE << n \div 65536, (n \div 256) % 256, n % 256 >>
        IN grp \o B64Decode(SubSeq(s, 5, Len(s)))

\* ------------------------------------------- EncryptionProvider (external)
KeyByte == 129

RECURSIVE MapAdd(_, _)
MapAdd(bytes, k) ==
    IF bytes = <<>> THEN <<>>
    ELSE << (Head(bytes) + k) % 256 >> \o MapAdd(Tail(bytes), k)

\* POST /encrypt {file_id, content (hex), password}
Encrypt(file_id, hexContent, password) ==
    [ encrypted_content |-> B64Encode(MapAdd(FromHexPairs(hexContent), KeyByte)),
      encryption_key |-> password ]

\* POST /decrypt {file_id, encrypted_content, encryption_key, password}
Decrypt(file_id, encrypted_content, encryption_key, password) ==
    IF encryption_key # password
    THEN [ status |-> 401, content |-> <<>> ]
    ELSE [ status |-> 200,
           content |-> Hex(MapAdd(B64Decode(encrypted_content), 256 - KeyByte)) ]

\* the tasks of beat_schedule
WorkerTasks ==
    { "cleanup_expired_files", "cleanup_downloaded_files", "generate_usage_stats" }

\* ------------------------------------------------------------- the state
VARIABLES
    now,         \* datetime.utcnow() / CURRENT_TIMESTAMP, in hours
    files,       \* the files table, by file_id (committed rows)
    blobs,       \* the MinIO bucket, by the object of a file_id
    tokenCache,  \* Redis token:<download_token> -> file_id
    metaCache,   \* Redis file_meta:<file_id> -> metadata JSON
    uploads,     \* the answer the client got to its k-th POST /upload, and how
                 \* its calls of /encrypt and /store ended
    dl,          \* the GET /download/<token> requests in flight or just answered
    served,      \* per issued token: how often its content was sent
    statusResp,  \* the answer to the GET /status/<token> just served
    audit,       \* the file_audit_log table
    lastSweep,   \* the result of the cleanup execution that just ended
    stResp,      \* the answer to the request to the storage-service just served
    task,        \* per periodic task of the worker: the state of its latest
                 \* request in the Celery result backend, and its retries
    usageStats   \* Redis usage_stats

vars == << now, files, blobs, tokenCache, metaCache, uploads, dl, served,
          statusResp, audit, lastSweep, stResp, task, usageStats >>

NoRow ==
    [ exists |-> FALSE, token |-> 0, created_at |-> NULL, expires_at |-> NULL,
      is_downloaded |-> FALSE, downloaded_at |-> NULL, download_count |-> 0,
      encryption_key |-> NoPassword ]
NoBlob == [ present |-> FALSE, data |-> <<>> ]
NoToken == [ present |-> FALSE, file_id |-> 0, exp |-> 0 ]
NoMeta == [ present |-> FALSE, expires_at |-> NULL, exp |-> 0 ]
NoUpload ==
    [ code |-> 0, content |-> <<>>, password |-> NoPassword, at |-> NULL,
      expires_at |-> NULL, encrypt |-> "none", store |-> "none" ]
NoDownload ==
    [ pc |-> "idle", token |-> 0, password |-> NoPassword, file_id |-> 0,
      content |-> <<>>, code |-> 0, markCode |-> 0, fault |-> FALSE,
      afterSuccess |-> FALSE ]
NoSweep ==
    [ kind |-> "none", selected |-> {}, deleted_count |-> 0, failed |-> FALSE,
      raised |-> FALSE, onlyExpired |-> FALSE ]
NoStorageResp ==
    [ op |-> "none", file_id |-> 0, token |-> 0, status |-> 0, content |-> <<>> ]
NoTask == [ state |-> "none", retries |-> 0, countdown |-> 0 ]
NoUsageStats ==
    [ present |-> FALSE, exp |-> 0, total_files_expired |-> 0, active_files |-> 0 ]
NoStatus ==
    [ code |-> 0, token |-> 0, status |-> "none", is_downloaded |-> FALSE,
      expires_at |-> NULL ]

\* a Redis key is answered until its TTL has run out
CacheHit(e) == e.present /\ now <= e.exp

Init ==
    /\ now = 0
    /\ files = [ f \in FileIds |-> NoRow ]
    /\ blobs = [ f \in FileIds |-> NoBlob ]
    /\ tokenCache = [ t \in Tokens |-> NoToken ]
    /\ metaCache = [ f \in FileIds |-> NoMeta ]
    /\ uploads = [ k \in FileIds |-> NoUpload ]
    /\ dl = [ d \in Slots |-> NoDownload ]
    /\ served = [ f \in FileIds |-> 0 ]
    /\ statusResp = NoStatus
    /\ audit = {}
    /\ lastSweep = NoSweep
    /\ stResp = NoStorageResp
    /\ task = [ t \in WorkerTasks |-> NoTask ]
    /\ usageStats = NoUsageStats

\* ------------------------------------------------------- storage-service
\* seeded fault (C23): the row is inserted and committed before put_object
store_file_row_first(file_id, encrypted_content, encryption_key, download_token, expiry_hours, fault) ==
    LET expires_at == now + expiry_hours
        newBlobs == [ blobs EXCEPT ![file_id] =
                        [ present |-> TRUE, data |-> B64Decode(encrypted_content) ] ]
        newFiles == [ files EXCEPT ![file_id] =
                        [ exists |-> TRUE, token |-> download_token,
                          created_at |-> now, expires_at |-> expires_at,
                          is_downloaded |-> FALSE, downloaded_at |-> NULL,
                          download_count |-> 0, encryption_key |-> encryption_key ] ]
        newMeta == [ metaCache EXCEPT ![file_id] =
                        [ present |-> TRUE, expires_at |-> expires_at,
                          exp |-> now + expiry_hours ] ]
    IN IF fault = "blob_fail"
       THEN [ status |-> 500, files |-> newFiles, blobs |-> blobs,
              metaCache |-> metaCache, expires_at |-> NULL ]
       ELSE IF fault = "insert_fail"
       THEN [ status |-> 500, files |-> files, blobs |-> newBlobs,
              metaCache |-> metaCache, expires_at |-> NULL ]
       ELSE IF expiry_hours * 3600 <= 0
       \* redis setex refuses a TTL that is not positive; the row is committed
       THEN [ status |-> 500, files |-> newFiles, blobs |-> newBlobs,
              metaCache |-> metaCache, expires_at |-> NULL ]
       ELSE [ status |-> 200, files |-> newFiles, blobs |-> newBlobs,
              metaCache |-> newMeta, expires_at |-> expires_at ]

\* POST /store.  fault names the step that raises: "blob_fail" (put_object),
\* "insert_fail" (INSERT / commit); otherwise the handler runs to its end.
store_file(file_id, encrypted_content, encryption_key, download_token, expiry_hours, fault) ==
    LET expires_at == now + expiry_hours
        newBlobs == [ blobs EXCEPT ![file_id] =
                        [ present |-> TRUE, data |-> B64Decode(encrypted_content) ] ]
        newFiles == [ files EXCEPT ![file_id] =
                        [ exists |-> TRUE, token |-> download_token,
                          created_at |-> now, expires_at |-> expires_at,
                          is_downloaded |-> FALSE, downloaded_at |-> NULL,
                          download_count |-> 0, encryption_key |-> encryption_key ] ]
        newMeta == [ metaCache EXCEPT ![file_id] =
                        [ present |-> TRUE, expires_at |-> expires_at,
                          exp |-> now + expiry_hours ] ]
    IN IF fault = "blob_fail"
       THEN [ status |-> 500, files |-> files, blobs |-> blobs,
              metaCache |-> metaCache, expires_at |-> NULL ]
       ELSE IF fault = "insert_fail"
       THEN [ status |-> 500, files |-> files, blobs |-> newBlobs,
              metaCache |-> metaCache, expires_at |-> NULL ]
       ELSE IF expiry_hours * 3600 <= 0
       \* redis setex refuses a TTL that is not positive; the row is committed
       THEN [ status |-> 500, files |-> newFiles, blobs |-> newBlobs,
              metaCache |-> metaCache, expires_at |-> NULL ]
       ELSE [ status |-> 200, files |-> newFiles, blobs |-> newBlobs,
              metaCache |-> newMeta, expires_at |-> expires_at ]

\* request.args.get('token') / data.get('token') of a request without one
MissingToken == 0

\* seeded fault (C22): the statements select by file_id alone
RowMatchesAnyToken(file_id, token) ==
    files[file_id].exists

\* SELECT * FROM files WHERE file_id = %s AND download_token = %s
RowMatches(file_id, token) ==
    files[file_id].exists /\ files[file_id].token = token

\* seeded fault (C21): the one-time check of /retrieve is left out
retrieve_file_unchecked(file_id, token) ==
    LET row == files[file_id]
        refuse(c, e) == [ status |-> c, error |-> e, encrypted_content |-> <<>>,
                          encryption_key |-> NoPassword ]
    IN IF token = MissingToken THEN refuse(400, "Download token required")
       ELSE IF ~RowMatches(file_id, token)
       THEN refuse(404, "File not found or invalid token")
       ELSE IF now > row.expires_at THEN refuse(410, "File has expired")
       ELSE IF ~blobs[file_id].present THEN refuse(404, "File not found in storage")
       ELSE [ status |-> 200, error |-> "",
              encrypted_content |-> B64Encode(blobs[file_id].data),
              encryption_key |-> row.encryption_key ]

\* GET /retrieve/<file_id>?token=
retrieve_file(file_id, token) ==
    LET row == files[file_id]
        refuse(c, e) == [ status |-> c, error |-> e, encrypted_content |-> <<>>,
                          encryption_key |-> NoPassword ]
    IN IF token = MissingToken THEN refuse(400, "Download token required")
       ELSE IF ~RowMatches(file_id, token)
       THEN refuse(404, "File not found or invalid token")
       ELSE IF now > row.expires_at THEN refuse(410, "File has expired")
       ELSE IF row.is_downloaded
       THEN refuse(410, "File has already been downloaded")
       ELSE IF ~blobs[file_id].present THEN refuse(404, "File not found in storage")
       ELSE [ status |-> 200, error |-> "",
              encrypted_content |-> B64Encode(blobs[file_id].data),
              encryption_key |-> row.encryption_key ]

\* UPDATE files SET is_downloaded = TRUE, downloaded_at = CURRENT_TIMESTAMP,
\*   download_count = download_count + 1 WHERE file_id = %s AND download_token = %s
MarkUpdate(row) ==
    [ row EXCEPT !.is_downloaded = TRUE, !.downloaded_at = now,
                 !.download_count = @ + 1 ]

\* POST /mark_downloaded/<file_id> {token}
mark_file_downloaded(file_id, token) ==
    IF token = MissingToken
    THEN [ status |-> 400, files |-> files, metaCache |-> metaCache ]
    ELSE IF ~RowMatches(file_id, token)
    THEN [ status |-> 404, files |-> files, metaCache |-> metaCache ]
    ELSE [ status |-> 200,
           files |-> [ files EXCEPT ![file_id] = MarkUpdate(@) ],
           metaCache |-> [ metaCache EXCEPT ![file_id] = NoMeta ] ]

\* the computed status of the database branch of GET /status/<file_id>
ComputedStatus(row) ==
    IF row.is_downloaded THEN "downloaded"
    ELSE IF now > row.expires_at THEN "expired"
    ELSE "available"

\* GET /status/<file_id>?token= : the cached branch answers the cached
\* metadata with the row's download fields, and no 'status' key
st_get_file_status(file_id, token) ==
    LET row == files[file_id]
    IN IF token = MissingToken
       THEN [ status_code |-> 400, status |-> "absent", is_downloaded |-> FALSE,
              expires_at |-> NULL ]
       ELSE IF CacheHit(metaCache[file_id]) /\ RowMatches(file_id, token)
       THEN [ status_code |-> 200, status |-> "absent",
              is_downloaded |-> row.is_downloaded,
              expires_at |-> metaCache[file_id].expires_at ]
       ELSE IF ~RowMatches(file_id, token)
       THEN [ status_code |-> 404, status |-> "absent", is_downloaded |-> FALSE,
              expires_at |-> NULL ]
       ELSE [ status_code |-> 200, status |-> ComputedStatus(row),
              is_downloaded |-> row.is_downloaded,
              expires_at |-> row.expires_at ]


\* ------------------------------------------------------------ api-gateway
ALLOWED_EXTENSIONS ==
    { "txt", "pdf", "png", "jpg", "jpeg", "gif", "doc", "docx", "xls", "xlsx",
      "ppt", "pptx", "zip", "rar", "7z", "mp4", "mp3", "wav", "avi", "mov" }

\* str.lower() on the extensions of Filenames
Lower(ext) == IF ext = "TXT" THEN "txt" ELSE ext

\* seeded fault (C15): the extension is not looked at
AllowedFileAny(filename) == TRUE

\* '.' in filename and filename.rsplit('.', 1)[1].lower() in ALLOWED_EXTENSIONS
allowed_file(filename) ==
    Len(filename) >= 2 /\ Lower(filename[Len(filename)]) \in ALLOWED_EXTENSIONS

\* if expiry_hours and expiry_hours > MAX_EXPIRY_HOURS: 400
ExpiryRejected(expiry_hours) ==
    expiry_hours # NULL /\ expiry_hours # 0 /\ expiry_hours > MAX_EXPIRY_HOURS

\* expiry_hours or DEFAULT_EXPIRY_HOURS
EffectiveHours(expiry_hours) ==
    IF expiry_hours = NULL \/ expiry_hours = 0 THEN DEFAULT_EXPIRY_HOURS
    ELSE expiry_hours

\* redis_client.setex(f"token:{download_token}", DEFAULT_EXPIRY_HOURS * 3600, file_id)
TokenTTL(expiry_hours) == DEFAULT_EXPIRY_HOURS

UploadFaults ==
    { "none", "encrypt_fail", "encrypt_timeout", "blob_fail", "insert_fail",
      "store_timeout" }

\* seeded fault (C14): the answer of /encrypt is not looked at
EncryptAnswerIgnored(status) == 0

\* lines 261-264: 200 goes on, anything else is a 500 'Encryption failed'
EncryptAnswer(status) ==
    IF status = 200 THEN 0 ELSE 500

\* seeded fault (C24): the answer of /store is not looked at
StoreAnswerIgnored(status) == 0

\* lines 284-286: 200 goes on, anything else is a 500 'Storage failed'
StoreAnswer(status) ==
    IF status = 200 THEN 0 ELSE 500

\* a request that was answered has left the gateway
Open(slots) ==
    [ d \in Slots |-> IF slots[d].pc = "done" THEN NoDownload ELSE slots[d] ]

\* POST /upload, the k-th request; its file_id and token are fresh.
\* fault: "encrypt_fail" the encryption service answers non-200,
\* "encrypt_timeout" / "store_timeout" requests raises (the storage handler
\* still runs to its end), "blob_fail" / "insert_fail" inside store_file.
upload_request(k, hasFile, filename, expiry_hours, password, content, fault) ==
    /\ statusResp' = NoStatus
    /\ lastSweep' = NoSweep
    /\ UNCHANGED audit
    /\ stResp' = NoStorageResp
    /\ UNCHANGED << task, usageStats >>
    /\ dl' = Open(dl)
    /\ UNCHANGED << now, served >>
    /\ LET invalid == \/ ~hasFile
                      \/ filename = <<>>
                      \/ ~allowed_file(filename)
                      \/ ExpiryRejected(expiry_hours)
           h == EffectiveHours(expiry_hours)
           file_id == k
           download_token == TokenOf(k)
           enc == Encrypt(file_id, Hex(content), password)
           st == store_file(file_id, enc.encrypted_content, enc.encryption_key,
                            download_token, h,
                            IF fault = "store_timeout" THEN "none" ELSE fault)
           encStatus == IF fault = "encrypt_fail" THEN 500 ELSE 200
           encrypt == IF encStatus = 200 THEN "ok" ELSE "failed"
           store == IF fault = "store_timeout" THEN "timeout"
                    ELSE IF st.status = 200 THEN "ok" ELSE "failed"
           failed(c, e, s) ==
               [ uploads EXCEPT ![k] =
                   [ NoUpload EXCEPT !.code = c, !.encrypt = e, !.store = s ] ]
       IN IF invalid
          THEN /\ fault = "none"
               /\ uploads' = failed(400, "none", "none")
               /\ UNCHANGED << files, blobs, tokenCache, metaCache >>
          ELSE /\ now + h < MaxTime
               /\ IF fault = "encrypt_timeout"
                  THEN /\ uploads' = failed(503, "timeout", "none")
                       /\ UNCHANGED << files, blobs, tokenCache, metaCache >>
                  ELSE IF EncryptAnswer(encStatus) # 0
                  THEN /\ uploads' = failed(EncryptAnswer(encStatus), encrypt, "none")
                       /\ UNCHANGED << files, blobs, tokenCache, metaCache >>
                  ELSE /\ files' = st.files
                       /\ blobs' = st.blobs
                       /\ metaCache' = st.metaCache
                       /\ IF fault = "store_timeout"
                          THEN uploads' = failed(503, encrypt, store) /\ UNCHANGED tokenCache
                          ELSE IF StoreAnswer(st.status) # 0
                          THEN /\ uploads' = failed(StoreAnswer(st.status), encrypt, store)
                               /\ UNCHANGED tokenCache
                          ELSE /\ tokenCache' =
                                    [ tokenCache EXCEPT ![download_token] =
                                        [ present |-> TRUE, file_id |-> file_id,
                                          exp |-> now + TokenTTL(h) ] ]
                               /\ uploads' =
                                    [ uploads EXCEPT ![k] =
                                        [ code |-> 200, content |-> content,
                                          password |-> password, at |-> now,
                                          expires_at |-> st.expires_at,
                                          encrypt |-> encrypt, store |-> store ] ]

upload_file(k) ==
    /\ now <= LastUploadHour
    /\ uploads[k].code = 0
    /\ \A j \in 1 .. (k - 1) : uploads[j].code # 0
    /\ \E hasFile \in BOOLEAN, filename \in Filenames, expiry_hours \in ExpiryInputs,
          body \in UploadBodies, fault \in UploadFaults :
            /\ fault # "none" => body.password = NoPassword
            /\ upload_request(k, hasFile, filename, expiry_hours, body.password,
                              body.content, fault)

\* the answer of a finished download; only a 200 carries content
Answer(r, c) ==
    [ r EXCEPT !.pc = "done", !.code = c,
               !.content = IF c = 200 THEN @ ELSE <<>> ]

\* what the clients of a token have been sent so far
Served(token, c) ==
    IF FileOfToken(token) \notin FileIds \/ c # 200 THEN served
    ELSE [ served EXCEPT ![FileOfToken(token)] = @ + 1 ]

\* request d is answered with code c
Finish(d, r, c) ==
    /\ dl' = [ Open(dl) EXCEPT ![d] = Answer(r, c) ]
    /\ served' = Served(r.token, c)

\* request d goes on to its next step
Continue(d, r) ==
    /\ dl' = [ Open(dl) EXCEPT ![d] = r ]
    /\ UNCHANGED served

\* download_file, lines 324-327: file_id = redis_client.get(f"token:{token}")
download_lookup(d, token, password) ==
    /\ Open(dl)[d].pc = "idle"
    /\ \A e \in 1 .. (d - 1) : Open(dl)[e].pc # "idle"
    /\ statusResp' = NoStatus
    /\ lastSweep' = NoSweep
    /\ UNCHANGED audit
    /\ stResp' = NoStorageResp
    /\ UNCHANGED << task, usageStats >>
    /\ UNCHANGED << now, files, blobs, tokenCache, metaCache, uploads >>
    /\ LET f == FileOfToken(token)
           r == [ NoDownload EXCEPT
                    !.token = token, !.password = password,
                    !.afterSuccess = (f \in FileIds /\ served[f] > 0) ]
       IN IF ~CacheHit(tokenCache[token])
          THEN Finish(d, r, 404)
          ELSE Continue(d, [ r EXCEPT !.pc = "retrieve",
                                      !.file_id = tokenCache[token].file_id ])

\* lines 342-345: 200 goes on, 404 is passed on, anything else is a 500
RetrieveAnswer(status) ==
    IF status = 200 THEN 0 ELSE IF status = 404 THEN 404 ELSE 500

\* seeded fault (C4): the 401 of the encryption service is not passed on
DecryptAnswerNo401(status) ==
    IF status = 200 THEN 0 ELSE 500

\* lines 361-364: 200 goes on, 401 is passed on, anything else is a 500
DecryptAnswer(status) ==
    IF status = 200 THEN 0 ELSE IF status = 401 THEN 401 ELSE 500

RetrieveFaults == { "ok", "timeout", "decrypt_fail", "decrypt_timeout" }

\* seeded fault (C38): the token key is deleted as soon as /retrieve is called
download_retrieve_dropping_token(d, fault) ==
    /\ dl[d].pc = "retrieve"
    /\ statusResp' = NoStatus
    /\ lastSweep' = NoSweep
    /\ UNCHANGED audit
    /\ stResp' = NoStorageResp
    /\ UNCHANGED << task, usageStats >>
    /\ UNCHANGED << now, files, blobs, metaCache, uploads >>
    /\ tokenCache' = [ tokenCache EXCEPT ![dl[d].token] = NoToken ]
    /\ LET r == dl[d]
           resp == retrieve_file(r.file_id, r.token)
           dec == Decrypt(r.file_id, resp.encrypted_content, resp.encryption_key,
                          r.password)
           bytes == FromHex(dec.content)
       IN IF fault = "timeout"
          THEN Finish(d, [ r EXCEPT !.fault = TRUE ], 503)
          ELSE IF RetrieveAnswer(resp.status) # 0
          THEN fault = "ok" /\ Finish(d, r, RetrieveAnswer(resp.status))
          ELSE IF fault = "decrypt_timeout"
          THEN Finish(d, [ r EXCEPT !.fault = TRUE ], 503)
          ELSE IF fault = "decrypt_fail"
          THEN Finish(d, [ r EXCEPT !.fault = TRUE ], DecryptAnswer(500))
          ELSE IF DecryptAnswer(dec.status) # 0
          THEN Finish(d, r, DecryptAnswer(dec.status))
          ELSE IF bytes = HexError
          THEN Finish(d, r, 500)
          ELSE Continue(d, [ r EXCEPT !.pc = "mark", !.content = bytes ])

\* download_file, lines 335-369: GET /retrieve/<file_id>?token=, then
\* POST /decrypt (a call that reads and writes no store), then bytes.fromhex.
\* fault: "timeout" / "decrypt_timeout" requests raises, "decrypt_fail" the
\* encryption service answers 500.
download_retrieve(d, fault) ==
    /\ dl[d].pc = "retrieve"
    /\ statusResp' = NoStatus
    /\ lastSweep' = NoSweep
    /\ UNCHANGED audit
    /\ stResp' = NoStorageResp
    /\ UNCHANGED << task, usageStats >>
    /\ UNCHANGED << now, files, blobs, tokenCache, metaCache, uploads >>
    /\ LET r == dl[d]
           resp == retrieve_file(r.file_id, r.token)
           dec == Decrypt(r.file_id, resp.encrypted_content, resp.encryption_key,
                          r.password)
           bytes == FromHex(dec.content)
       IN IF fault = "timeout"
          THEN Finish(d, [ r EXCEPT !.fault = TRUE ], 503)
          ELSE IF RetrieveAnswer(resp.status) # 0
          THEN fault = "ok" /\ Finish(d, r, RetrieveAnswer(resp.status))
          ELSE IF fault = "decrypt_timeout"
          THEN Finish(d, [ r EXCEPT !.fault = TRUE ], 503)
          ELSE IF fault = "decrypt_fail"
          THEN Finish(d, [ r EXCEPT !.fault = TRUE ], DecryptAnswer(500))
          ELSE IF DecryptAnswer(dec.status) # 0
          THEN Finish(d, r, DecryptAnswer(dec.status))
          ELSE IF bytes = HexError
          THEN Finish(d, r, 500)
          ELSE Continue(d, [ r EXCEPT !.pc = "mark", !.content = bytes ])

\* lines 371-376: the answer of POST /mark_downloaded is not looked at
MarkAnswer(status) == 0

MarkFaults == { "ok", "dberr", "timeout_applied", "timeout_lost" }

\* download_file, lines 371-376: POST /mark_downloaded/<file_id>.
\* fault: "dberr" the handler's database call raises and it answers 500;
\* "timeout_applied" / "timeout_lost" requests raises after / before the
\* handler ran.
download_mark(d, fault) ==
    /\ dl[d].pc = "mark"
    /\ statusResp' = NoStatus
    /\ lastSweep' = NoSweep
    /\ UNCHANGED audit
    /\ stResp' = NoStorageResp
    /\ UNCHANGED << task, usageStats >>
    /\ UNCHANGED << now, blobs, tokenCache, uploads >>
    /\ LET r == dl[d]
           resp == mark_file_downloaded(r.file_id, r.token)
           ran == fault \in { "ok", "timeout_applied" }
           status == IF fault = "dberr" THEN 500 ELSE resp.status
       IN /\ files' = IF ran THEN resp.files ELSE files
          /\ metaCache' = IF ran THEN resp.metaCache ELSE metaCache
          /\ IF fault \in { "timeout_applied", "timeout_lost" }
             THEN Finish(d, [ r EXCEPT !.fault = TRUE, !.markCode = 503 ], 503)
             ELSE IF MarkAnswer(status) # 0
             THEN Finish(d, [ r EXCEPT !.fault = (fault # "ok"), !.markCode = status ],
                         MarkAnswer(status))
             ELSE Continue(d, [ r EXCEPT !.pc = "purge", !.fault = (fault # "ok"),
                                         !.markCode = status ])

\* seeded fault (C2, C13): the token key is left in Redis
PurgeTokenSkipped(cache, token) == cache

\* redis_client.delete(f"token:{token}")
PurgeToken(cache, token) == [ cache EXCEPT ![token] = NoToken ]

\* download_file, lines 378-390: drop the token, send the file
download_purge(d) ==
    /\ dl[d].pc = "purge"
    /\ statusResp' = NoStatus
    /\ lastSweep' = NoSweep
    /\ UNCHANGED audit
    /\ stResp' = NoStorageResp
    /\ UNCHANGED << task, usageStats >>
    /\ UNCHANGED << now, files, blobs, metaCache, uploads >>
    /\ tokenCache' = PurgeToken(tokenCache, dl[d].token)
    /\ Finish(d, dl[d], 200)

\* seeded fault (C34): a status request that is answered 200 uses the token up
gw_get_file_status_consuming(token, fault) ==
    /\ dl' = Open(dl)
    /\ lastSweep' = NoSweep
    /\ UNCHANGED audit
    /\ stResp' = NoStorageResp
    /\ UNCHANGED << task, usageStats >>
    /\ UNCHANGED << now, files, blobs, metaCache, uploads, served >>
    /\ LET hit == CacheHit(tokenCache[token])
           resp == st_get_file_status(tokenCache[token].file_id, token)
           refuse(c) == [ NoStatus EXCEPT !.code = c, !.token = token ]
       IN IF ~hit THEN fault = "ok" /\ statusResp' = refuse(404) /\ UNCHANGED tokenCache
          ELSE IF fault = "timeout" THEN statusResp' = refuse(503) /\ UNCHANGED tokenCache
          ELSE IF resp.status_code # 200 THEN statusResp' = refuse(404) /\ UNCHANGED tokenCache
          ELSE /\ tokenCache' = [ tokenCache EXCEPT ![token] = NoToken ]
               /\ statusResp' = [ code |-> 200, token |-> token,
                                  status |-> resp.status,
                                  is_downloaded |-> resp.is_downloaded,
                                  expires_at |-> resp.expires_at ]

\* GET /status/<token> of the gateway
gw_get_file_status(token, fault) ==
    /\ dl' = Open(dl)
    /\ lastSweep' = NoSweep
    /\ UNCHANGED audit
    /\ stResp' = NoStorageResp
    /\ UNCHANGED << task, usageStats >>
    /\ UNCHANGED << now, files, blobs, tokenCache, metaCache, uploads, served >>
    /\ LET hit == CacheHit(tokenCache[token])
           resp == st_get_file_status(tokenCache[token].file_id, token)
           refuse(c) == [ NoStatus EXCEPT !.code = c, !.token = token ]
       IN IF ~hit THEN fault = "ok" /\ statusResp' = refuse(404)
          ELSE IF fault = "timeout" THEN statusResp' = refuse(503)
          ELSE IF resp.status_code # 200 THEN statusResp' = refuse(404)
          ELSE statusResp' = [ code |-> 200, token |-> token,
                               status |-> resp.status,
                               is_downloaded |-> resp.is_downloaded,
                               expires_at |-> resp.expires_at ]

\* ------------------------------------------- background-worker and cleanup
\* the rows a SELECT returns, in file_id order
RECURSIVE InOrder(_)
InOrder(S) ==
    IF S = {} THEN <<>>
    ELSE LET f == CHOOSE x \in S : \A y \in S : x <= y
         IN << f >> \o InOrder(S \ {f})

\* seeded fault (C9): the worker selects with the storage-service's filter
ExpiredAndNotDownloaded ==
    { f \in FileIds : /\ files[f].exists
                      /\ files[f].expires_at < now
                      /\ ~files[f].is_downloaded }

\* worker: WHERE expires_at < CURRENT_TIMESTAMP
ExpiredRows == { f \in FileIds : files[f].exists /\ files[f].expires_at < now }

\* seeded fault (C27): the downloaded sweep does not wait for the grace hour
DownloadedRowsNoGrace ==
    { f \in FileIds : files[f].exists /\ files[f].is_downloaded }

\* worker: WHERE is_downloaded = TRUE AND downloaded_at < CURRENT_TIMESTAMP - INTERVAL '1 hour'
DownloadedRows ==
    { f \in FileIds : /\ files[f].exists
                      /\ files[f].is_downloaded
                      /\ files[f].downloaded_at < now - GRACE_HOURS }

\* storage-service: WHERE expires_at < CURRENT_TIMESTAMP AND is_downloaded = FALSE
StorageExpiredRows ==
    { f \in FileIds : /\ files[f].exists
                      /\ files[f].expires_at < now
                      /\ ~files[f].is_downloaded }

Selected(kind) ==
    IF kind = "expired" THEN ExpiredRows
    ELSE IF kind = "downloaded" THEN DownloadedRows
    ELSE StorageExpiredRows

SweepKinds == { "expired", "downloaded", "storage_expired" }

\* what one candidate meets: "ok", "s3err" remove_object raises an S3Error
\* other than NoSuchKey, "nosuchkey" it raises NoSuchKey (the object is not
\* there), "dberr" the object is removed and the next SQL statement raises
CandidateOutcomes == { "ok", "s3err", "nosuchkey", "dberr" }

\* seeded fault (C10): remove_object is not called
SweepStepKeepsBlob(kind, f, o, acc) ==
    IF o \in { "s3err", "dberr" } THEN [ acc EXCEPT !.failed = TRUE ]
    ELSE [ acc EXCEPT
             !.audited = IF kind = "storage_expired" THEN @ ELSE @ \cup {f},
             !.deleted = @ \cup {f},
             !.uncached = @ \cup {f},
             !.count = @ + 1 ]

\* seeded fault (C33): the worker handles NoSuchKey like every other S3Error,
\* the row of an absent object is kept
SweepStepNoSuchKeyFails(kind, f, o, acc) ==
    IF o \in { "s3err", "nosuchkey" } THEN [ acc EXCEPT !.failed = TRUE ]
    ELSE LET gone == [ acc EXCEPT !.blobs[f] = NoBlob ]
         IN IF acc.aborted \/ o = "dberr"
            THEN [ gone EXCEPT !.failed = TRUE, !.aborted = TRUE ]
            ELSE [ gone EXCEPT
                     !.audited = IF kind = "storage_expired" THEN @ ELSE @ \cup {f},
                     !.deleted = @ \cup {f},
                     !.uncached = @ \cup {f},
                     !.count = @ + 1 ]

\* the file_audit_log table (AuditEntry) that the worker inserts into exists
AuditLogCreated == TRUE

\* the body of the for loop, for candidate f.  acc is the transaction so far:
\* aborted after a failed statement (every later statement raises), raised
\* when an exception has left the loop.
SweepStep(kind, f, o, acc) ==
    IF o = "s3err" THEN [ acc EXCEPT !.failed = TRUE ]
    ELSE IF o = "nosuchkey"
    THEN IF kind = "storage_expired" THEN [ acc EXCEPT !.failed = TRUE ]
         ELSE IF acc.aborted THEN [ acc EXCEPT !.failed = TRUE, !.raised = TRUE ]
         ELSE [ acc EXCEPT !.deleted = @ \cup {f}, !.count = @ + 1 ]
    ELSE LET gone == [ acc EXCEPT !.blobs[f] = NoBlob ]
         IN IF \/ acc.aborted
               \/ o = "dberr"
               \/ (kind # "storage_expired" /\ ~AuditLogCreated)
            THEN [ gone EXCEPT !.failed = TRUE, !.aborted = TRUE ]
            ELSE [ gone EXCEPT
                     !.audited = IF kind = "storage_expired" THEN @ ELSE @ \cup {f},
                     !.deleted = @ \cup {f},
                     !.uncached = @ \cup {f},
                     !.count = @ + 1 ]

RECURSIVE SweepLoop(_, _, _, _)
SweepLoop(kind, cands, out, acc) ==
    IF cands = <<>> \/ acc.raised THEN acc
    ELSE SweepLoop(kind, Tail(cands), out,
                   SweepStep(kind, Head(cands), out[Head(cands)], acc))

\* the for loop over the rows of the SELECT
SweepOutcome(kind, out) ==
    SweepLoop(kind, InOrder(Selected(kind)), out,
              [ blobs |-> blobs, deleted |-> {}, audited |-> {},
                uncached |-> {}, aborted |-> FALSE, raised |-> FALSE,
                failed |-> FALSE, count |-> 0 ])

AuditOperation(kind) ==
    IF kind = "expired" THEN "expired_cleanup" ELSE "downloaded_cleanup"

\* one execution of cleanup_expired_files / cleanup_downloaded_files of the
\* worker, or of POST /cleanup/expired of the storage-service: the SELECT, the
\* loop over its rows and the commit.  Rows are deleted at the commit, objects
\* and file_meta keys at once.
cleanup_run(kind, out, commit) ==
    /\ statusResp' = NoStatus
    /\ stResp' = NoStorageResp
    /\ UNCHANGED usageStats
    /\ dl' = Open(dl)
    /\ UNCHANGED << now, tokenCache, uploads, served >>
    /\ LET sel == Selected(kind)
           acc == SweepOutcome(kind, out)
           committed == ~acc.raised /\ ~acc.aborted /\ commit = "ok"
       IN /\ \A f \in sel : out[f] = "nosuchkey" => ~blobs[f].present
          /\ blobs' = acc.blobs
          /\ metaCache' = [ f \in FileIds |->
                              IF f \in acc.uncached THEN NoMeta ELSE metaCache[f] ]
          /\ files' = IF committed
                      THEN [ f \in FileIds |->
                               IF f \in acc.deleted THEN NoRow ELSE files[f] ]
                      ELSE files
          /\ audit' = IF committed
                      THEN audit \cup { [ file_id |-> f,
                                          operation |-> AuditOperation(kind) ] :
                                        f \in acc.audited }
                      ELSE audit
          /\ lastSweep' =
               IF sel = {} THEN NoSweep ELSE
               [ kind |-> kind, selected |-> sel, deleted_count |-> acc.count,
                 failed |-> (acc.failed \/ commit # "ok"),
                 raised |-> (acc.raised \/ commit # "ok"),
                 onlyExpired |->
                    /\ \A f \in FileIds :
                          /\ files[f].exists => f \in StorageExpiredRows
                          /\ blobs[f].present => files[f].exists ]

\* an execution of a sweep, whichever attempt of its task it is
cleanup(kind) ==
    \E out \in [ Selected(kind) -> CandidateOutcomes ], commit \in { "ok", "fail" } :
        /\ cleanup_run(kind, out, commit)
        /\ UNCHANGED task

\* worker task cleanup_expired_files, every 300 s
cleanup_expired_files == cleanup("expired")

\* worker task cleanup_downloaded_files, every 3600 s
cleanup_downloaded_files == cleanup("downloaded")

\* storage-service POST /cleanup/expired
st_cleanup_expired_files == cleanup("storage_expired")

\* a request sent to the storage-service itself: GET /retrieve/<file_id>,
\* POST /mark_downloaded/<file_id> or GET /status/<file_id>, with any file_id
\* and any token or none
StorageOps == { "retrieve", "mark_downloaded", "status" }

storage_request(op, file_id, token) ==
    /\ statusResp' = NoStatus
    /\ lastSweep' = NoSweep
    /\ dl' = Open(dl)
    /\ UNCHANGED << now, blobs, tokenCache, uploads, served, audit, task, usageStats >>
    /\ LET r == retrieve_file(file_id, token)
           m == mark_file_downloaded(file_id, token)
           st == st_get_file_status(file_id, token)
           answer(c, content) ==
               [ op |-> op, file_id |-> file_id, token |-> token, status |-> c,
                 content |-> content ]
       IN IF op = "retrieve"
          THEN /\ stResp' = answer(r.status, r.encrypted_content)
               /\ UNCHANGED << files, metaCache >>
          ELSE IF op = "mark_downloaded"
          THEN /\ m.status = 200 => files[file_id].download_count < MaxMarks
               /\ stResp' = answer(m.status, <<>>)
               /\ files' = m.files
               /\ metaCache' = m.metaCache
          ELSE /\ stResp' = answer(st.status_code, <<>>)
               /\ UNCHANGED << files, metaCache >>

\* -------------------------------------------- the worker's periodic tasks
\* self.retry(countdown=60, max_retries=3)
MAX_RETRIES == 3
RETRY_COUNTDOWN == 60

\* the request of task t is in the broker's queue, waiting for the worker
Queued(t) == task[t].state \in { "PENDING", "RETRY" }

\* the task has returned: the request is over
Succeeded(req) == [ state |-> "SUCCESS", retries |-> 0, countdown |-> 0 ]

\* seeded fault (C32): the task is sent again however often it was retried
RetryUnbounded(req) ==
    [ state |-> "RETRY", retries |-> req.retries + 1, countdown |-> RETRY_COUNTDOWN ]

\* raise self.retry(countdown=60, max_retries=3), for the request req that
\* is being executed: Celery sends the task again with retries + 1, to run
\* after the countdown, unless that exceeds max_retries; then the task
\* fails with MaxRetriesExceededError.  The worker goes on either way.
Retry(req) ==
    IF req.retries + 1 > MAX_RETRIES
    THEN [ state |-> "FAILURE", retries |-> req.retries, countdown |-> 0 ]
    ELSE [ state |-> "RETRY", retries |-> req.retries + 1,
           countdown |-> RETRY_COUNTDOWN ]

\* celery beat sends task t when its interval has passed.  The interval
\* (300 s at least) is longer than a task's retries take, so the request
\* before it has ended.
beat(t) ==
    /\ ~Queued(t)
    /\ task' = [ task EXCEPT ![t] = [ state |-> "PENDING", retries |-> 0,
                                       countdown |-> 0 ] ]
    /\ statusResp' = NoStatus
    /\ lastSweep' = NoSweep
    /\ stResp' = NoStorageResp
    /\ dl' = Open(dl)
    /\ UNCHANGED << now, files, blobs, tokenCache, metaCache, uploads, served,
                    audit, usageStats >>

SweepOf(t) ==
    IF t = "cleanup_expired_files" THEN "expired" ELSE "downloaded"

\* an exception reaches the outer except of the task: one that left the loop,
\* or one of the commit
SweepRaises(kind, out, commit) ==
    SweepOutcome(kind, out).raised \/ commit # "ok"

\* the worker executes the queued request of a sweep task: the body of the
\* task, and self.retry when it raises
run_sweep(t) ==
    /\ Queued(t)
    /\ \E out \in [ Selected(SweepOf(t)) -> CandidateOutcomes ],
          commit \in { "ok", "fail" } :
            /\ cleanup_run(SweepOf(t), out, commit)
            /\ task' = [ task EXCEPT ![t] =
                           IF SweepRaises(SweepOf(t), out, commit)
                           THEN Retry(@) ELSE Succeeded(@) ]

run_cleanup_expired_files == run_sweep("cleanup_expired_files")

run_cleanup_downloaded_files == run_sweep("cleanup_downloaded_files")

StatsFaults == { "ok", "dberr", "rediserr" }

\* the worker executes the queued request of generate_usage_stats: counts
\* over file_audit_log and files, cached in Redis usage_stats for 1800 s.
\* fault: "dberr" a query raises, "rediserr" the setex raises.
generate_usage_stats(fault) ==
    /\ Queued("generate_usage_stats")
    /\ statusResp' = NoStatus
    /\ lastSweep' = NoSweep
    /\ stResp' = NoStorageResp
    /\ dl' = Open(dl)
    /\ UNCHANGED << now, files, blobs, tokenCache, metaCache, uploads, served,
                    audit >>
    /\ LET stats ==
             [ present |-> TRUE, exp |-> now,
               total_files_expired |->
                   Cardinality({ e \in audit : e.operation = "expired_cleanup" }),
               active_files |->
                   Cardinality({ f \in FileIds : /\ files[f].exists
                                                 /\ files[f].expires_at > now
                                                 /\ ~files[f].is_downloaded }) ]
       IN IF fault = "ok" /\ AuditLogCreated
          THEN /\ usageStats' = stats
               /\ task' = [ task EXCEPT !["generate_usage_stats"] = Succeeded(@) ]
          ELSE /\ UNCHANGED usageStats
               /\ task' = [ task EXCEPT !["generate_usage_stats"] = Retry(@) ]

\* GET /stats of the storage-service: counts over the files table and the
\* bucket.  fault: "dberr" the query raises (500), "minioerr" list_objects
\* raises (the bucket counts as empty).
get_storage_stats(fault) ==
    /\ statusResp' = NoStatus
    /\ lastSweep' = NoSweep
    /\ dl' = Open(dl)
    /\ UNCHANGED << now, files, blobs, tokenCache, metaCache, uploads, served,
                    audit, task, usageStats >>
    /\ LET rows == { f \in FileIds : files[f].exists }
           count(S) == Cardinality(S)
           answer(c, content) ==
               [ op |-> "stats", file_id |-> 0, token |-> 0, status |-> c,
                 content |-> content ]
       IN IF fault = "dberr"
          THEN stResp' = answer(500, <<>>)
          ELSE stResp' = answer(200,
                 << count(rows),
                    count({ f \in rows : files[f].is_downloaded }),
                    count({ f \in rows : files[f].expires_at < now }),
                    count({ f \in rows : /\ files[f].expires_at >= now
                                         /\ ~files[f].is_downloaded }),
                    IF fault = "minioerr" THEN 0
                    ELSE count({ f \in FileIds : blobs[f].present }) >>)

\* the clock
Tick ==
    /\ now < MaxTime
    /\ now' = now + 1
    /\ statusResp' = NoStatus
    /\ lastSweep' = NoSweep
    /\ UNCHANGED audit
    /\ stResp' = NoStorageResp
    /\ UNCHANGED << task, usageStats >>
    /\ dl' = Open(dl)
    /\ UNCHANGED << files, blobs, tokenCache, metaCache, uploads, served >>

Next ==
    \/ \E k \in 1 .. MaxUploads : upload_file(k)
    \/ \E d \in Slots, token \in RequestTokens, password \in DownloadPasswords :
            download_lookup(d, token, password)
    \/ \E d \in Slots, fault \in RetrieveFaults : download_retrieve(d, fault)
    \/ \E d \in Slots, fault \in MarkFaults : download_mark(d, fault)
    \/ \E d \in Slots : download_purge(d)
    \/ \E token \in RequestTokens, fault \in { "ok", "timeout" } :
            gw_get_file_status(token, fault)
    \/ cleanup_expired_files
    \/ cleanup_downloaded_files
    \/ st_cleanup_expired_files
    \/ Tick

Spec == Init /\ [][Next]_vars

\* ------------------------------------------------- a store of several rows
\* uploads of MaxFiles files and the sweeps over rows that nobody downloads
StoreNext ==
    \/ \E k \in FileIds : upload_file(k)
    \/ cleanup_expired_files
    \/ st_cleanup_expired_files
    \/ Tick

StoreSpec == Init /\ [][StoreNext]_vars

\* ------------------------------------- the storage-service called directly
\* uploads of MaxFiles files and requests to the storage-service with every
\* pairing of a file_id with a token
StorageNext ==
    \/ \E k \in FileIds : upload_file(k)
    \/ \E op \in StorageOps, file_id \in FileIds,
          token \in { MissingToken } \cup { TokenOf(f) : f \in FileIds } :
            storage_request(op, file_id, token)
    \/ Tick

StorageSpec == Init /\ [][StorageNext]_vars

\* ------------------------------------------- the worker and its retries
\* an upload, and the two sweep tasks as celery beat sends them and the
\* worker executes and retries them
SweepTasks == { "cleanup_expired_files", "cleanup_downloaded_files" }

WorkerNext ==
    \/ \E k \in 1 .. MaxUploads : upload_file(k)
    \/ \E t \in SweepTasks : beat(t)
    \/ run_cleanup_expired_files
    \/ run_cleanup_downloaded_files
    \/ Tick

WorkerSpec == Init /\ [][WorkerNext]_vars

\* the worker executes what is queued (a retry when its countdown is over),
\* and celery beat keeps sending the tasks
WorkerLiveSpec ==
    /\ WorkerSpec
    /\ \A t \in SweepTasks : WF_vars(run_sweep(t)) /\ WF_vars(beat(t))

\* ------------------------------------------------- the reading operations
\* an upload, every request to the storage-service, and the operations that
\* only report: GET /status of the gateway, GET /stats, generate_usage_stats
ReadNext ==
    \/ \E k \in 1 .. MaxUploads : upload_file(k)
    \/ \E op \in StorageOps, file_id \in 1 .. MaxUploads,
          token \in { MissingToken } \cup { TokenOf(f) : f \in FileIds } :
            storage_request(op, file_id, token)
    \/ \E token \in RequestTokens, fault \in { "ok", "timeout" } :
            gw_get_file_status(token, fault)
    \/ \E fault \in { "ok", "dberr", "minioerr" } : get_storage_stats(fault)
    \/ beat("generate_usage_stats")
    \/ \E fault \in StatsFaults : generate_usage_stats(fault)
    \/ Tick

ReadSpec == Init /\ [][ReadNext]_vars

\* ---------------------------------------------------------------- liveness
\* no row is expired, or an execution of cleanup_expired_files in which
\* nothing raised has just ended
SweptWithoutFailure ==
    ExpiredRows = {} \/ (lastSweep.kind = "expired" /\ ~lastSweep.failed)

\* time passes, and celery beat keeps starting cleanup_expired_files (every
\* 300 s): while expired rows remain, again and again an execution ends in
\* which nothing raised
LiveSpec ==
    Spec /\ WF_vars(Tick) /\ []<>SweptWithoutFailure

\* ----------------------------------------------------------------- claims
\* the upload whose token a request names, when there is one
IssuedFile(token) ==
    FileOfToken(token) \in FileIds /\ uploads[FileOfToken(token)].code = 200

\* C1 (race-freedom): of the Download calls on one token, however their steps
\* interleave, at most one returns the file content.
C1_RaceFreedom ==
    \A f \in FileIds : served[f] <= 1

\* C2 (one-time use): a Download that starts after a Download of the same
\* token has returned the content is answered 404 or 410, without content.
C2_OneTimeUse ==
    \A d \in Slots :
        (dl[d].pc = "done" /\ dl[d].afterSuccess)
            => (dl[d].code \in { 404, 410 } /\ dl[d].content = <<>>)

C2_Witness ==
    \E d \in Slots :
        /\ dl[d].pc = "done"
        /\ dl[d].afterSuccess
        /\ dl[d].token = TokenOf(1)
        /\ dl[d].code = 404

\* C3 (round trip): a Download of an accepted upload's token, made with the
\* upload's password in the hour of the upload, with no failing call and no
\* other Download of the token having marked or delivered the file, returns
\* 200 and exactly the uploaded bytes.
C3_RoundTrip ==
    \A d \in Slots :
        LET r == dl[d]
            f == FileOfToken(r.token)
        IN ( /\ r.pc = "done"
             /\ ~r.fault
             /\ IssuedFile(r.token)
             /\ r.password = uploads[f].password
             /\ now = uploads[f].at
             /\ files[f].download_count = (IF r.markCode = 200 THEN 1 ELSE 0)
             /\ served[f] = (IF r.code = 200 THEN 1 ELSE 0) )
           => (r.code = 200 /\ r.content = uploads[f].content)

C3_Witness ==
    \E d \in Slots :
        /\ dl[d].pc = "done"
        /\ ~dl[d].fault
        /\ IssuedFile(dl[d].token)
        /\ dl[d].password = "pw"
        /\ now = uploads[FileOfToken(dl[d].token)].at
        /\ dl[d].code = 200
        /\ dl[d].content = << 255 >>
        /\ uploads[FileOfToken(dl[d].token)].content = << 255 >>

\* a request that was answered although its token is still in the cache and
\* the storage-service would hand out the file
StillRetrievable(r) ==
    /\ CacheHit(tokenCache[r.token])
    /\ retrieve_file(tokenCache[r.token].file_id, r.token).status = 200

C4_Rejected ==
    \A d \in Slots :
        ( /\ dl[d].pc = "done"
          /\ ~dl[d].fault
          /\ IssuedFile(dl[d].token)
          /\ dl[d].password # uploads[FileOfToken(dl[d].token)].password
          /\ StillRetrievable(dl[d]) )
        => (dl[d].code = 401 /\ dl[d].content = <<>>)

C4_NotConsumed ==
    (\E d \in Slots : dl'[d].pc = "done" /\ dl'[d].code = 401)
        => UNCHANGED << files, blobs, tokenCache, metaCache, served >>

\* C4 (wrong password): a Download with a password other than the upload's,
\* of a token that is still retrievable, is answered 401 without content, and
\* the step that answers 401 changes neither the row, the blob, the token key
\* nor the metadata key: the token is not consumed.
C4_WrongPassword ==
    [] C4_Rejected /\ [][C4_NotConsumed]_vars

C4_Witness ==
    \E d \in Slots :
        /\ dl[d].pc = "done"
        /\ dl[d].code = 401
        /\ dl[d].password # uploads[FileOfToken(dl[d].token)].password
        /\ StillRetrievable(dl[d])

\* C5 (fail closed): a Download whose mark_downloaded call was answered with
\* anything but 200, or timed out, is answered 503 without content.
C5_FailClosed ==
    \A d \in Slots :
        (dl[d].pc = "done" /\ dl[d].markCode \notin { 0, 200 })
            => (dl[d].code = 503 /\ dl[d].content = <<>>)

\* the file a status answer is about is a record that still exists
StatusOfRecord ==
    /\ statusResp.code \notin { 0, 503 }
    /\ IssuedFile(statusResp.token)
    /\ files[FileOfToken(statusResp.token)].exists

\* C6 (status after download): once a Download of the token has returned the
\* content and the row is marked, and while the row exists, the gateway's
\* status answer is 200 with status 'downloaded'.
C6_StatusAfterDownload ==
    ( /\ StatusOfRecord
      /\ served[FileOfToken(statusResp.token)] > 0
      /\ files[FileOfToken(statusResp.token)].is_downloaded )
    => (statusResp.code = 200 /\ statusResp.status = "downloaded")

\* C7 (status before download): for an accepted upload that nobody has
\* downloaded and whose expires_at lies in the future, the gateway's status
\* answer is 200 with status 'available' and an expires_at in the future.
C7_StatusBeforeDownload ==
    ( /\ StatusOfRecord
      /\ served[FileOfToken(statusResp.token)] = 0
      /\ ~files[FileOfToken(statusResp.token)].is_downloaded
      /\ now < files[FileOfToken(statusResp.token)].expires_at )
    => ( /\ statusResp.code = 200
         /\ statusResp.status = "available"
         /\ statusResp.expires_at > now )

\* C8 (status after expiry): for an accepted upload that nobody has downloaded
\* and whose expires_at has passed, while the row exists, the gateway's status
\* answer is 200 with status 'expired'.
C8_StatusAfterExpiry ==
    ( /\ StatusOfRecord
      /\ served[FileOfToken(statusResp.token)] = 0
      /\ ~files[FileOfToken(statusResp.token)].is_downloaded
      /\ now > files[FileOfToken(statusResp.token)].expires_at )
    => (statusResp.code = 200 /\ statusResp.status = "expired")

\* C9 (automatic purge): every row of the files table is eventually deleted,
\* and its blob with it, while time passes and executions of
\* cleanup_expired_files in which nothing raises keep happening.
C9_Purged ==
    \A f \in FileIds :
        files[f].exists ~> (~files[f].exists /\ ~blobs[f].present)

C9_Witness ==
    /\ lastSweep.kind = "expired"
    /\ ~lastSweep.failed
    /\ \E f \in lastSweep.selected :
          uploads[f].code = 200 /\ ~files[f].exists /\ ~blobs[f].present

\* C10 (cleanup purge): from a store holding only expired, never-downloaded
\* rows and their blobs, one execution of the worker's or the
\* storage-service's expired cleanup in which no step raises leaves no row and
\* no blob.
C10_CleanupPurge ==
    ( /\ lastSweep.kind \in { "expired", "storage_expired" }
      /\ lastSweep.onlyExpired
      /\ ~lastSweep.failed )
    => \A f \in FileIds : ~files[f].exists /\ ~blobs[f].present

C10_Witness ==
    /\ lastSweep.kind = "expired"
    /\ lastSweep.onlyExpired
    /\ ~lastSweep.failed
    /\ lastSweep.selected = FileIds
    /\ \A f \in FileIds : uploads[f].code = 200
    /\ \A f \in FileIds : ~files[f].exists /\ ~blobs[f].present

\* an object of the bucket that no row of the files table names
Orphan(f) == blobs[f].present /\ ~files[f].exists

\* C11 (orphan sweep): an object that has no row, such as the one a /store
\* leaves whose INSERT failed after put_object, is eventually removed while
\* time passes and the worker's tasks keep running.
C11_OrphanSwept ==
    \A f \in FileIds : Orphan(f) ~> ~blobs[f].present

\* a request that was answered by the lines that handle the answer of
\* /retrieve (335-345): the step reads the stores and changes none of them, so
\* retrieve_file still gives in the state of the answer what the handler gave
RefusedByRetrieve(r, status) ==
    /\ r.pc = "done"
    /\ r.file_id # 0
    /\ r.markCode = 0
    /\ ~r.fault
    /\ retrieve_file(r.file_id, r.token).status = status

\* C12 (status mapping of refused downloads): a Download whose token is in the
\* cache and whose /retrieve is refused with 410 (the row is expired or
\* already downloaded) is answered 410.
C12_GoneIs410 ==
    \A d \in Slots : RefusedByRetrieve(dl[d], 410) => dl[d].code = 410

Uploaded(k) == uploads[k].code = 0 /\ uploads'[k].code # 0

C14_Step ==
    \A k \in FileIds :
        (Uploaded(k) /\ uploads'[k].encrypt \in { "failed", "timeout" })
            => /\ uploads'[k].code \in { 500, 503 }
               /\ uploads'[k].store = "none"
               /\ UNCHANGED << files, blobs, tokenCache, metaCache, audit >>

\* C14 (EncryptionFailed has no side effects): an Upload whose /encrypt call
\* is answered with an error or times out is answered 500 or 503, makes no
\* /store call and leaves the bucket, the files table, the token keys and the
\* metadata keys as they were.
C14_EncryptionFailed ==
    [][C14_Step]_vars

C14_Witness ==
    /\ uploads[1].encrypt = "failed"
    /\ uploads[1].code = 500
    /\ ~files[1].exists /\ ~blobs[1].present
    /\ ~tokenCache[TokenOf(1)].present /\ ~metaCache[1].present

\* the inputs the validation is to refuse: no file part, an empty filename, a
\* filename without an extension or with one that is not allowed, an expiry
\* above the maximum
InvalidInput(hasFile, filename, expiry_hours) ==
    \/ ~hasFile
    \/ Len(filename) < 2
    \/ Lower(filename[Len(filename)]) \notin ALLOWED_EXTENSIONS
    \/ (expiry_hours # NULL /\ expiry_hours > MAX_EXPIRY_HOURS)

C15_Step ==
    \A k \in FileIds :
        Uploaded(k) =>
            \A hasFile \in BOOLEAN, filename \in Filenames,
               expiry_hours \in ExpiryInputs, body \in UploadBodies,
               fault \in UploadFaults :
                ( /\ InvalidInput(hasFile, filename, expiry_hours)
                  /\ upload_request(k, hasFile, filename, expiry_hours,
                                    body.password, body.content, fault) )
                => /\ uploads'[k].code = 400
                   /\ uploads'[k].encrypt = "none"
                   /\ uploads'[k].store = "none"
                   /\ UNCHANGED << files, blobs, tokenCache, metaCache, audit >>

\* C15 (validation precedes external calls): a POST /upload without a file,
\* with an empty filename, with an extension that is not allowed or with an
\* expiry above MAX_EXPIRY_HOURS is answered 400 before /encrypt or /store is
\* called or a token key is set, and leaves the bucket, the files table, the
\* token keys and the metadata keys as they were.
C15_ValidationFirst ==
    [][C15_Step]_vars

C15_Witness ==
    /\ uploads[1].code = 400
    /\ uploads[1].encrypt = "none" /\ uploads[1].store = "none"
    /\ ~files[1].exists /\ ~blobs[1].present
    /\ ~tokenCache[TokenOf(1)].present /\ ~metaCache[1].present

C16_Step ==
    /\ \A k \in FileIds :
          (Uploaded(k) /\ "timeout" \in { uploads'[k].encrypt, uploads'[k].store })
              => (uploads'[k].code = 503 /\ UNCHANGED files)
    /\ \A d \in Slots :
          (dl[d].pc # "done" /\ dl'[d].pc = "done" /\ dl'[d].code = 503)
              => UNCHANGED files

\* C16 (timeouts leave no partial commit): a request whose call of another
\* service times out is answered 503, and the step in which it times out
\* changes no row of the files table: a timed-out /store inserts no row, a
\* timed-out /mark_downloaded marks none.
C16_NoPartialCommit ==
    [][C16_Step]_vars

\* C17 (status with a cold cache): a status request for an issued token that
\* has no token key while a row of the files table carries it is answered 200
\* with the row's status (available, expired or downloaded), not 404.
C17_ColdCache ==
    LET token == statusResp.token
        f == FileOfToken(token)
    IN ( /\ statusResp.code # 0
         /\ IssuedFile(token)
         /\ RowMatches(f, token)
         /\ ~CacheHit(tokenCache[token]) )
       => ( /\ statusResp.code = 200
            /\ statusResp.status = ComputedStatus(files[f]) )

C18_Step ==
    \A d \in Slots :
        (dl[d].pc = "mark" /\ dl'[d].markCode = 200)
            => /\ RowMatches(dl[d].file_id, dl[d].token)
               /\ ~files[dl[d].file_id].is_downloaded

\* C18 (compare-and-set): /mark_downloaded answers 200 only when the row of
\* the file carries the token and is not yet marked downloaded; of two
\* Downloads that both passed /retrieve, the second to mark is not answered 200.
C18_CompareAndSet ==
    [][C18_Step]_vars

C19_Step ==
    \A f \in FileIds :
        (files[f].exists /\ files'[f].exists)
            => /\ files[f].is_downloaded => files'[f].is_downloaded
               /\ (files[f].is_downloaded /\ files'[f].is_downloaded)
                     => files'[f].download_count = files[f].download_count
               /\ files'[f].download_count
                     = (IF files'[f].is_downloaded THEN 1 ELSE 0)

\* C19 (monotonic is_downloaded): while a row exists its is_downloaded never
\* goes back to FALSE, a row that is marked is not marked again, and
\* download_count is 1 when is_downloaded is TRUE and 0 otherwise.
C19_MarkedOnce ==
    [][C19_Step]_vars

C20_Step ==
    \A d \in Slots :
        LET r == dl[d]
            resp == retrieve_file(r.file_id, r.token)
        IN /\ (r.pc = "retrieve" /\ dl'[d].pc = "mark")
                => Decrypt(r.file_id, resp.encrypted_content,
                           resp.encryption_key, r.password).status = 200
           /\ (r.pc = "purge" /\ tokenCache'[r.token] # tokenCache[r.token])
                => r.markCode = 200

\* C20 (order of consume and purge): a Download calls /mark_downloaded only
\* after /decrypt answered 200, and deletes the token key only after
\* /mark_downloaded answered 200: no Download whose mark did not succeed
\* deletes the key.
C20_PurgeAfterMark ==
    [][C20_Step]_vars

\* C21 (Retrieve re-validates): for every file_id and token, whatever the
\* token keys hold, /retrieve hands out no content for a row whose expires_at
\* has passed or that is marked downloaded; it answers 'File has expired' in
\* the first case and 'File has already been downloaded' in the second.
C21_RetrieveRefuses ==
    \A f \in FileIds, t \in Tokens :
        LET r == retrieve_file(f, t)
            expired == now > files[f].expires_at
        IN RowMatches(f, t) =>
             /\ expired =>
                  /\ r.status = 410 /\ r.error = "File has expired"
                  /\ r.encrypted_content = <<>>
             /\ (~expired /\ files[f].is_downloaded) =>
                  /\ r.status = 410 /\ r.error = "File has already been downloaded"
                  /\ r.encrypted_content = <<>>

\* a Download was refused by /retrieve on a marked row whose token key is
\* still there
C21_Witness ==
    \E d \in Slots :
        /\ RefusedByRetrieve(dl[d], 410)
        /\ files[dl[d].file_id].is_downloaded
        /\ now <= files[dl[d].file_id].expires_at
        /\ CacheHit(tokenCache[dl[d].token])
        /\ dl[d].content = <<>>

C22_Step ==
    ( /\ stResp'.op # "none"
      /\ ~(files[stResp'.file_id].exists
           /\ files[stResp'.file_id].token = stResp'.token) )
    => /\ stResp'.status \in { 400, 404 }
       /\ stResp'.content = <<>>
       /\ UNCHANGED << files, blobs, metaCache >>

\* C22 (exact match): a /retrieve, /mark_downloaded or /status request to the
\* storage-service whose token is missing or is not the download_token of the
\* row of its file_id is answered 400 or 404 without content and changes no
\* row, object or metadata key.
C22_ExactMatch ==
    [][C22_Step]_vars

\* /mark_downloaded for the first file with the token of the second, both
\* rows being there: refused, the rows unmarked
C22_Witness ==
    /\ stResp.op = "mark_downloaded"
    /\ stResp.file_id = 1
    /\ stResp.token = TokenOf(2)
    /\ stResp.status = 404
    /\ files[1].exists /\ ~files[1].is_downloaded
    /\ files[2].exists /\ files[2].token = TokenOf(2)

C23_Step ==
    \A f \in FileIds :
        /\ (~files[f].exists /\ files'[f].exists) => blobs'[f].present
        /\ (Uploaded(f) /\ uploads'[f].store = "failed" /\ ~blobs'[f].present)
              => ~files'[f].exists

\* C23 (blob before row): /store inserts the row only after put_object
\* succeeded: in the step that inserts a row its object is in the bucket, and
\* a /store whose put_object failed leaves no row.
C23_BlobFirst ==
    [][C23_Step]_vars

C23_Witness ==
    /\ uploads[1].encrypt = "ok"
    /\ uploads[1].store = "failed"
    /\ uploads[1].code = 500
    /\ ~blobs[1].present
    /\ ~files[1].exists

C24_Step ==
    /\ \A t \in Tokens :
          (~tokenCache[t].present /\ tokenCache'[t].present)
              => LET f == tokenCache'[t].file_id
                 IN /\ f \in FileIds
                    /\ files'[f].exists
                    /\ files'[f].token = t
    /\ \A k \in FileIds :
          (Uploaded(k) /\ uploads'[k].code # 200) => UNCHANGED tokenCache

\* C24 (token key after the commit): a token key is set only in a step in
\* which the row of its file_id, carrying that token, is committed in the
\* files table, and an upload that is not answered 200 sets no token key.
C24_TokenAfterCommit ==
    [][C24_Step]_vars

\* an upload whose row was committed and that failed afterwards has no key
C24_Witness ==
    /\ uploads[1].store = "timeout"
    /\ files[1].exists
    /\ ~tokenCache[TokenOf(1)].present

\* C25 (token TTL = expiry): the token key of an accepted upload lapses at the
\* expires_at of its row, neither earlier nor later.
C25_TokenTTL ==
    \A f \in FileIds :
        (uploads[f].code = 200 /\ tokenCache[TokenOf(f)].present)
            => tokenCache[TokenOf(f)].exp = uploads[f].expires_at

\* C26 (expires_at after created_at): every row of the files table has
\* expires_at > created_at, whatever expiry_hours the upload gave.
C26_ExpiresAfterCreated ==
    \A f \in FileIds :
        files[f].exists => files[f].expires_at > files[f].created_at

\* the row may be destroyed: its expires_at has passed, or it was downloaded
\* more than the grace hour ago
Eligible(row) ==
    \/ now > row.expires_at
    \/ (row.is_downloaded /\ now - row.downloaded_at > GRACE_HOURS)

C27_Step ==
    \A f \in FileIds :
        ( \/ (files[f].exists /\ ~files'[f].exists)
          \/ (blobs[f].present /\ ~blobs'[f].present) )
        => (files[f].exists /\ Eligible(files[f]))

\* C27 (cleanup destroys only eligible records): a row or an object is deleted
\* only in a step that finds the row expired, or downloaded more than the
\* grace hour ago; no other row and no other row's object is ever deleted.
C27_OnlyEligible ==
    [][C27_Step]_vars

\* the downloaded sweep has deleted an unexpired row after the grace hour
C27_Witness ==
    /\ lastSweep.kind = "downloaded"
    /\ \E f \in lastSweep.selected :
          /\ uploads[f].code = 200
          /\ now <= uploads[f].expires_at
          /\ ~files[f].exists
          /\ ~blobs[f].present

\* a Download has passed /retrieve for the row of f and has not yet called
\* /mark_downloaded, and nobody has marked the row
MidDownload(f) ==
    /\ files[f].exists
    /\ ~files[f].is_downloaded
    /\ \E d \in Slots : dl[d].pc = "mark" /\ dl[d].file_id = f

C28_Step ==
    \A f \in FileIds :
        MidDownload(f) =>
            /\ files'[f].exists
            /\ blobs[f].present => blobs'[f].present

\* C28 (cleanup against live traffic): while a Download is between /retrieve
\* and /mark_downloaded and the row is unmarked, no step deletes the row or
\* its object, so the mark that follows finds the row.
C28_SafeAgainstTraffic ==
    [][C28_Step]_vars

\* in the execution nothing fails but for candidates whose object is missing
OthersSucceed(kind, out, commit, f) ==
    /\ commit = "ok"
    /\ \A g \in Selected(kind) \ {f} : out[g] \in { "ok", "nosuchkey" }

C29_Step ==
    lastSweep'.kind # "none" =>
        \A kind \in SweepKinds :
            \A out \in [ Selected(kind) -> CandidateOutcomes ], commit \in { "ok", "fail" } :
                cleanup_run(kind, out, commit) =>
                    \A f \in Selected(kind) :
                        /\ out[f] = "s3err" => files'[f] = files[f]
                        /\ (out[f] = "nosuchkey" /\ OthersSucceed(kind, out, commit, f))
                              => ~files'[f].exists

\* C29 (blob delete errors in a sweep): in every sweep, a candidate whose
\* remove_object fails with an error other than NoSuchKey keeps its row, and a
\* candidate whose object is already gone (NoSuchKey) has its row deleted.
C29_BlobDeleteErrors ==
    [][C29_Step]_vars

C30_Step ==
    lastSweep'.kind # "none" =>
        \A kind \in SweepKinds :
            \A out \in [ Selected(kind) -> CandidateOutcomes ] :
                cleanup_run(kind, out, "ok") =>
                    \A f \in Selected(kind) :
                        out[f] = "ok" => (~files'[f].exists /\ ~blobs'[f].present)

\* C30 (per-item isolation): in a sweep whose commit succeeds, every candidate
\* whose own steps all succeed has its object removed and its row deleted,
\* whatever fails for the other candidates of the sweep.
C30_PerItemIsolation ==
    [][C30_Step]_vars

C31_Step ==
    /\ audit \subseteq audit'
    /\ \A f \in FileIds :
          (files[f].exists /\ ~files'[f].exists)
              => \E e \in audit' \ audit :
                    /\ e.file_id = f
                    /\ e.operation \in { "expired_cleanup", "downloaded_cleanup" }

\* C31 (audit of deletions): no step removes an audit entry, and every step
\* that deletes a row of the files table appends an audit entry for that
\* file_id with operation expired_cleanup or downloaded_cleanup, also when the
\* object was already absent.
C31_AuditedDeletion ==
    [][C31_Step]_vars

\* the two sweeps that the worker retries
WorkerSweeps == { "expired", "downloaded" }

\* no step of the execution fails: every object is removed or already absent,
\* every statement and the commit succeed
AllSucceed(kind, out, commit) ==
    /\ commit = "ok"
    /\ \A f \in Selected(kind) : out[f] \in { "ok", "nosuchkey" }

\* what one complete execution leaves of the candidates S
WithoutRows(S) == [ f \in FileIds |-> IF f \in S THEN NoRow ELSE files[f] ]
WithoutBlobs(S) == [ f \in FileIds |-> IF f \in S THEN NoBlob ELSE blobs[f] ]

\* an execution, however it ends, touches the rows and objects of its
\* candidates only
C33_First ==
    lastSweep'.kind \in WorkerSweeps =>
        \A f \in FileIds \ lastSweep'.selected :
            files'[f] = files[f] /\ blobs'[f] = blobs[f]

\* the sweep that has just ended, however it ended, is run again and nothing
\* fails this time
C33_Again ==
    lastSweep.kind \in WorkerSweeps =>
        \A out \in [ Selected(lastSweep.kind) -> CandidateOutcomes ] :
            ( /\ AllSucceed(lastSweep.kind, out, "ok")
              /\ cleanup_run(lastSweep.kind, out, "ok") )
            => /\ files' = WithoutRows(lastSweep.selected)
               /\ blobs' = WithoutBlobs(lastSweep.selected)

\* C33 (sweeps are idempotent and safe to retry): when a worker sweep runs
\* again right after an execution of the same sweep, whether that execution
\* was complete or failed part-way, and nothing fails in the second run, the
\* files table and the bucket end as one complete execution would have left
\* them: the candidates' rows and objects are gone, everything else is as it
\* was before the first execution.
C33_Idempotent ==
    [][C33_First /\ C33_Again]_vars

\* a sweep has run without failure over a row whose object an earlier
\* execution had removed without deleting the row: the row is gone, and
\* no audit entry was written on the way
C33_Witness ==
    /\ lastSweep.kind \in WorkerSweeps
    /\ ~lastSweep.failed
    /\ \E f \in lastSweep.selected :
          /\ ~files[f].exists
          /\ ~blobs[f].present
          /\ \A e \in audit : e.file_id # f

C35_Step ==
    \A k \in FileIds :
        (Uploaded(k) /\ uploads'[k].code # 200)
            => /\ ~files'[k].exists
               /\ ~tokenCache'[TokenOf(k)].present

\* C35 (a failed upload never happened): when POST /upload is answered with
\* an error, whatever step failed, the files table has no row for the
\* upload's file_id and Redis has no token key for its token afterwards;
\* at most the object remains in the bucket.
C35_FailedUploadLeavesNothing ==
    [][C35_Step]_vars

\* the row can still be downloaded: not marked, expires_at not passed
Available(row) ==
    row.exists /\ ~row.is_downloaded /\ now <= row.expires_at

\* C36 (available rows have their object): in every reachable state, every
\* row of the files table that is not marked downloaded and whose expires_at
\* has not passed has its object in the bucket.
C36_BlobOfAvailableRow ==
    \A f \in FileIds : Available(files[f]) => blobs[f].present

\* a Download of an available row has just been refused (wrong password) and
\* the row is still available, with its object
C36_Witness ==
    \E d \in Slots :
        /\ dl[d].pc = "done"
        /\ dl[d].code = 401
        /\ dl[d].file_id \in FileIds
        /\ Available(files[dl[d].file_id])
        /\ blobs[dl[d].file_id].present
        /\ now > 0

\* request d has called /mark_downloaded in this step and the row of its file
\* went from unmarked to marked
MarkedBy(d) ==
    /\ dl[d].pc = "mark"
    /\ files[dl[d].file_id].exists
    /\ ~files[dl[d].file_id].is_downloaded
    /\ files'[dl[d].file_id].is_downloaded

C37_Step ==
    \A d \in Slots :
        MarkedBy(d) => ~(dl'[d].pc = "done" /\ dl'[d].code # 200)

\* C37 (never consumed without being delivered): a Download whose call of
\* /mark_downloaded flips the row to downloaded is not answered with an error
\* from that point on: it goes on to send the content.
C37_ConsumedIsDelivered ==
    [][C37_Step]_vars

\* request d takes a step before its call of /mark_downloaded: the lookup of
\* the token, or /retrieve and /decrypt
EarlyStep(d) ==
    /\ Open(dl)[d].pc \in { "idle", "retrieve" }
    /\ dl'[d] # Open(dl)[d]
    /\ dl'[d].pc \in { "retrieve", "mark", "done" }

C38_Step ==
    \A d \in Slots :
        (EarlyStep(d) /\ dl'[d].pc = "done" /\ dl'[d].code # 200)
            => /\ files' = files
               /\ blobs' = blobs
               /\ tokenCache' = tokenCache
               /\ served' = served

\* C38 (early errors change nothing): a Download that is answered with an
\* error before /mark_downloaded is called (token not in the cache, /retrieve
\* refused or timed out, wrong password, decryption failure) leaves every row
\* of the files table (is_downloaded, downloaded_at, download_count included),
\* every object and every token key as they were.
C38_EarlyErrorFrame ==
    [][C38_Step]_vars

\* /retrieve has just refused a Download of an issued token (the row has
\* expired with the token key still live): row, object and token key are
\* all still there
C38_Witness ==
    \E d \in Slots :
        /\ dl[d].pc = "done"
        /\ dl[d].code = 500
        /\ ~dl[d].fault
        /\ dl[d].markCode = 0
        /\ dl[d].file_id \in FileIds
        /\ files[dl[d].file_id].exists
        /\ ~files[dl[d].file_id].is_downloaded
        /\ blobs[dl[d].file_id].present
        /\ tokenCache[dl[d].token].present

\* the retries of a request never exceed max_retries, and a request sent
\* again is a retry with the countdown of 60 s
C32_Bounded ==
    \A t \in SweepTasks :
        /\ task[t].retries \in 0 .. MAX_RETRIES
        /\ task[t].state = "RETRY" =>
              (task[t].retries >= 1 /\ task[t].countdown = RETRY_COUNTDOWN)

\* an execution of the queued request ends the request or sends it again
\* with one retry more; it is given up only after max_retries retries, and an
\* execution that raised is not taken for a success
C32_Step ==
    \A t \in SweepTasks :
        (Queued(t) /\ task'[t] # task[t]) =>
            /\ task'[t].state \in { "SUCCESS", "RETRY", "FAILURE" }
            /\ task'[t].state = "RETRY" => task'[t].retries = task[t].retries + 1
            /\ task'[t].state = "FAILURE" => task[t].retries = MAX_RETRIES
            /\ (lastSweep'.kind = SweepOf(t) /\ lastSweep'.raised)
                  => task'[t].state # "SUCCESS"

\* C32 (bounded retries): a sweep execution that raises is sent again at most
\* 3 times, 60 s after the failure each time, and after the third retry the
\* task is given up; the retry sequence of every request that celery beat
\* sends comes to an end, and after a request that was given up celery beat
\* sends the task again and the worker executes it.
C32_BoundedRetries ==
    /\ []C32_Bounded
    /\ [][C32_Step]_vars
    /\ \A t \in SweepTasks : Queued(t) ~> ~Queued(t)
    /\ \A t \in SweepTasks :
          (task[t].state = "FAILURE") ~> (task[t].state = "PENDING")

\* the expired sweep was given up after its third retry, while the
\* downloaded sweep has been sent again after having been given up
C32_Witness ==
    /\ task["cleanup_expired_files"] =
          [ state |-> "FAILURE", retries |-> MAX_RETRIES, countdown |-> 0 ]
    /\ task["cleanup_downloaded_files"].state = "RETRY"
    /\ task["cleanup_downloaded_files"].retries = 2
    /\ \E f \in FileIds : files[f].exists /\ files[f].expires_at < now

\* the step answers a status request (gateway or storage-service) or GET
\* /stats, or is an execution of generate_usage_stats
Reading ==
    \/ statusResp'.code # 0
    \/ stResp'.op \in { "status", "stats" }
    \/ /\ Queued("generate_usage_stats")
       /\ task'["generate_usage_stats"] # task["generate_usage_stats"]

C34_Step ==
    Reading => /\ files' = files
               /\ blobs' = blobs
               /\ tokenCache' = tokenCache

\* C34 (status and statistics only read): a status request to the gateway or
\* to the storage-service, GET /stats and an execution of
\* generate_usage_stats, with whatever answer they end, leave every row of
\* the files table, every object and every token key unchanged.
C34_ReadOnly ==
    [][C34_Step]_vars

\* GET /stats has just counted one row, after generate_usage_stats has cached
\* its counts, and the file is still there and can be downloaded
C34_Witness ==
    /\ stResp.op = "stats"
    /\ stResp.status = 200
    /\ stResp.content[1] = 1
    /\ task["generate_usage_stats"].state = "SUCCESS"
    /\ usageStats.present
    /\ usageStats.active_files = 1
    /\ \E f \in FileIds :
          /\ files[f].exists /\ ~files[f].is_downloaded /\ now <= files[f].expires_at
          /\ blobs[f].present
          /\ CacheHit(tokenCache[TokenOf(f)])

====
